---- MODULE Spec2Model ----
\* Model of the XP ledger contract (FunC, recv_internal and its storage
\* helpers) together with the message bodies built by the TypeScript wrapper.
\*
\* Integers of the TVM are 257 bit wide; TLC's are 32 bit.  A contract integer
\* is therefore a little-endian tuple of five limbs in base 2^16 (80 bits),
\* wide enough for the sum of two unsigned 64-bit values, so that the 64-bit
\* bound 18446744073709551615 of the source is kept exactly.
EXTENDS Integers, Sequences, FiniteSets, TLC

\* ───────── bounds of the model ─────────
MaxTime == 121
StartTime == 1

\* how many AddXP other clients of the owner send during a run
MaxOthers == 1

\* the latest time a run of the engine is followed to
MaxClock == 61

\* ───────── wide integers ─────────
Base == 2^16
Big(n) == <<n, 0, 0, 0, 0>>

BigZero == Big(0)

\* a + b, limb by limb with carry
BigAdd(a, b) ==
    LET s1 == a[1] + b[1]
        s2 == a[2] + b[2] + (s1 \div Base)
        s3 == a[3] + b[3] + (s2 \div Base)
        s4 == a[4] + b[4] + (s3 \div Base)
        s5 == a[5] + b[5] + (s4 \div Base)
    IN  <<s1 % Base, s2 % Base, s3 % Base, s4 % Base, s5 % Base>>

RECURSIVE BigLeqFrom(_, _, _)
BigLeqFrom(a, b, i) ==
    IF i = 0 THEN TRUE
    ELSE IF a[i] < b[i] THEN TRUE
    ELSE IF a[i] > b[i] THEN FALSE
    ELSE BigLeqFrom(a, b, i - 1)

\* a <= b
BigLeq(a, b) == BigLeqFrom(a, b, Len(a))

BigLt(a, b) == BigLeq(a, b) /\ a # b

\* 18446744073709551615 = 2^64 - 1
MAX_UINT64 == <<Base - 1, Base - 1, Base - 1, Base - 1, 0>>

\* the value fits an unsigned 64-bit field (store_uint(x, 64) does not throw)
FitsUint64(x) == x[5] = 0

\* ───────── constants of the contract ─────────
OP_ADD_XP == 4660
OP_ADD_XP_WITH_ID == 22136
OP_UPGRADE == 34661
OP_OTHER == 39321
CONTRACT_VERSION == 1
ERR_NOT_OWNER == 401
ERR_OVERFLOW == 402
ERR_TOO_SOON == 403
MIN_TIMEOUT == 60
EXIT_OK == 0
EXIT_RANGE_CHECK == 5
EXIT_CELL_UNDERFLOW == 9

\* ───────── addresses, hashes, inputs ─────────
Addr == {"owner", "user", "attacker"}

\* the empty slice that stands for "no owner stored"
NoAddr == "none"

\* slice_hash: the representation hash of a slice; distinct slices have
\* distinct hashes
slice_hash(s) == <<"hash", s>>

\* slice_bits of an address slice: 267 bits for a standard address, 0 for the
\* empty slice
slice_bits(s) == IF s = NoAddr THEN 0 ELSE IF s = "addr_none" THEN 2 ELSE 267

\* who sends messages, and whose balance they name
Senders == {"owner", "attacker"}

Users == {"user", "attacker"}

\* who deploys the ledger
Deployers == {"owner"}

\* amounts carried by AddXP: small ones and 2^64 - 2
Amounts == {Big(0), Big(2), <<Base - 2, Base - 1, Base - 1, Base - 1, 0>>}

OpIds == {0, 7}

\* seconds by which the block time advances between transactions
Deltas == {MIN_TIMEOUT - 1, MIN_TIMEOUT}

\* ───────── storage ─────────
\* c4 holding no state record
NullData == [owner |-> NoAddr, ver |-> 0, last_op_time |-> 0,
             dict |-> << >>, null |-> TRUE]

\* the null dictionary (no entries)
EmptyDict == << >>

\* begin_cell().store_slice(owner).store_uint(ver, 16)
\*   .store_uint(last_op_time, 32).store_dict(dict).end_cell()
Cell(owner, ver, last_op_time, dict) ==
    [owner |-> owner, ver |-> ver, last_op_time |-> last_op_time,
     dict |-> dict, null |-> FALSE]

\* _load_state: (owner, ver, last_op_time, dict) of the stored cell, or the
\* defaults when nothing is stored
_load_state(raw) ==
    IF raw.null
    THEN [owner |-> NoAddr, ver |-> CONTRACT_VERSION, last_op_time |-> 0,
          dict |-> EmptyDict]
    ELSE [owner |-> raw.owner, ver |-> raw.ver,
          last_op_time |-> raw.last_op_time, dict |-> raw.dict]

\* _store_state: the cell written by set_data
_store_state(owner, ver, last_op_time, dict) ==
    Cell(owner, ver, last_op_time, dict)

\* dict.udict_get?(256, key): (value, found)
udict_get(dict, key) ==
    IF key \in DOMAIN dict
    THEN [v |-> dict[key], found |-> TRUE]
    ELSE [v |-> BigZero, found |-> FALSE]

\* variant: the written dictionary keeps only the entry just set
udict_set_builder_only(dict, key, b) == [k \in {key} |-> b]

\* dict.udict_set_builder(256, key, b)
udict_set_builder(dict, key, b) ==
    [k \in (DOMAIN dict) \cup {key} |-> IF k = key THEN b ELSE dict[k]]

\* createForDeploy (32-bit last_op_time variant of the wrapper): the data
\* cell of a fresh deployment
createForDeploy(owner) == Cell(owner, 1, 0, EmptyDict)

\* createFromConfig: a deployment with an empty data cell
createFromConfig == NullData

\* ───────── cells at bit level ─────────
\* a cell is [bits |-> sequence of 0/1, refs |-> sequence of referenced values]

\* values above 2^30 - 1 are not told apart: TooBig stands for all of them
TooBig == 2^30

\* big-endian bits of v < 2^30 in a field of w bits
\* (beginCell().storeUint(v, w))
ToBits(v, w) ==
    [i \in 1 .. w |-> IF w - i >= 30 THEN 0 ELSE (v \div 2^(w - i)) % 2]

RECURSIVE BitsValue(_, _)
BitsValue(bits, i) ==
    IF i > Len(bits) THEN 0
    ELSE bits[i] * 2^(Len(bits) - i) + BitsValue(bits, i + 1)

\* the unsigned integer held by a bit string (load_uint)
FromBits(bits) ==
    LET n == Len(bits)
    IN  IF \E i \in 1 .. n : n - i >= 30 /\ bits[i] = 1 THEN TooBig
        ELSE IF n <= 30 THEN BitsValue(bits, 1)
        ELSE BitsValue(SubSeq(bits, n - 29, n), 1)

\* the 256-bit account id of an address
AddrId(a) == IF a = "owner" THEN 1 ELSE IF a = "user" THEN 2 ELSE 3

AddrOfId(id) == CHOOSE a \in Addr : AddrId(a) = id

\* storeAddress: addr_std$10, no anycast, workchain 0, account id
storeAddress(a) == <<1, 0, 0>> \o ToBits(0, 8) \o ToBits(AddrId(a), 256)

\* load_uint(n): the value and the remaining bits, or cell underflow
load_uint(bits, n) ==
    IF Len(bits) < n
    THEN [ok |-> FALSE, v |-> 0, rest |-> bits]
    ELSE [ok |-> TRUE, v |-> FromBits(SubSeq(bits, 1, n)),
          rest |-> SubSeq(bits, n + 1, Len(bits))]

\* load_msg_addr: addr_none$00 takes 2 bits, addr_std$10 takes 267
load_msg_addr(bits) ==
    IF Len(bits) < 2 THEN [ok |-> FALSE, v |-> NoAddr, rest |-> bits]
    ELSE IF bits[1] = 0 /\ bits[2] = 0
    THEN [ok |-> TRUE, v |-> "addr_none", rest |-> SubSeq(bits, 3, Len(bits))]
    ELSE IF bits[1] = 1 /\ bits[2] = 0 /\ Len(bits) >= 267 /\ bits[3] = 0
            /\ FromBits(SubSeq(bits, 12, 267)) \in {AddrId(a) : a \in Addr}
    THEN [ok |-> TRUE, v |-> AddrOfId(FromBits(SubSeq(bits, 12, 267))),
          rest |-> SubSeq(bits, 268, Len(bits))]
    ELSE [ok |-> FALSE, v |-> NoAddr, rest |-> bits]

\* storeDict: one bit, and a reference when the dictionary has entries
storeDict(cell, dict) ==
    IF DOMAIN dict = {}
    THEN [bits |-> Append(cell.bits, 0), refs |-> cell.refs]
    ELSE [bits |-> Append(cell.bits, 1), refs |-> Append(cell.refs, dict)]

\* createForDeploy (64-bit last_op_time variant of the wrapper):
\* owner | 4:16 | 0:64 | balances | history
createForDeploy64(owner) ==
    storeDict(storeDict([bits |-> storeAddress(owner) \o ToBits(4, 16)
                                   \o ToBits(0, 64),
                         refs |-> << >>],
                        EmptyDict),
              EmptyDict)

\* createForDeploy (32-bit last_op_time variant of the wrapper) at bit
\* level: owner | 1:16 | 0:32 | balances
createForDeploy32(owner) ==
    storeDict([bits |-> storeAddress(owner) \o ToBits(1, 16) \o ToBits(0, 32),
               refs |-> << >>],
              EmptyDict)

\* the cell _store_state hands to set_data:
\* store_slice(owner), store_uint(ver, 16), store_uint(last_op_time, 32),
\* store_dict(dict)
StoreStateCell(owner, ver, last_op_time, dict) ==
    storeDict([bits |-> storeAddress(owner) \o ToBits(ver, 16)
                          \o ToBits(last_op_time, 32),
               refs |-> << >>],
              dict)

\* variant: the loader reads a 64-bit last_op_time
ParseStateCell_time64(cell) ==
    LET o == load_msg_addr(cell.bits)
        v == load_uint(o.rest, 16)
        t == load_uint(v.rest, 64)
        d == load_uint(t.rest, 1)
    IN  IF ~(o.ok /\ v.ok /\ t.ok /\ d.ok) THEN [ok |-> FALSE, st |-> NullData]
        ELSE IF d.v = 1 /\ Len(cell.refs) = 0
        THEN [ok |-> FALSE, st |-> NullData]
        ELSE [ok |-> TRUE,
              st |-> Cell(o.v, v.v, t.v,
                          IF d.v = 1 THEN cell.refs[1] ELSE EmptyDict)]

\* what _load_state reads from a data cell: load_msg_addr, load_uint(16),
\* load_uint(32), load_dict; ok = FALSE when a load runs past the data
ParseStateCell(cell) ==
    LET o == load_msg_addr(cell.bits)
        v == load_uint(o.rest, 16)
        t == load_uint(v.rest, 32)
        d == load_uint(t.rest, 1)
    IN  IF ~(o.ok /\ v.ok /\ t.ok /\ d.ok) THEN [ok |-> FALSE, st |-> NullData]
        ELSE IF d.v = 1 /\ Len(cell.refs) = 0
        THEN [ok |-> FALSE, st |-> NullData]
        ELSE [ok |-> TRUE,
              st |-> Cell(o.v, v.v, t.v,
                          IF d.v = 1 THEN cell.refs[1] ELSE EmptyDict)]

\* the storage of a ledger deployed with the 64-bit variant, as the contract
\* reads it
Deployed64(owner) == ParseStateCell(createForDeploy64(owner)).st

\* ───────── message bodies built by the wrapper ─────────
\* layout: what the body holds
\*   "empty"     no bits
\*   "op"        opcode:32 and a reference
\*   "op_flags"  opcode:32 flags:4
\*   "addxp"     opcode:32 flags:4 address amount:64
\*   "addxp_id"  opcode:32 flags:4 address amount:64 opId:256
Body(layout, op, user, amount, opId) ==
    [layout |-> layout, op |-> op, user |-> user, amount |-> amount,
     opId |-> opId]

\* sendDeploy / sendInit: beginCell().endCell()
sendDeploy == Body("empty", 0, NoAddr, BigZero, 0)

\* options.opId left undefined
NoOpId == -1

\* options.opId ? ... : ... (undefined and 0n are falsy)
Truthy(opId) == opId # NoOpId /\ opId # 0

\* variant: the opId is dropped, every body is a plain AddXP
sendAddXP_plain(user, amount, opId) ==
    Body("addxp", OP_ADD_XP, user, amount, 0)

\* sendAddXP: the opcode depends on the truthiness of options.opId
sendAddXP(user, amount, opId) ==
    IF Truthy(opId)
    THEN Body("addxp_id", OP_ADD_XP_WITH_ID, user, amount, opId)
    ELSE Body("addxp", OP_ADD_XP, user, amount, 0)

\* sendUpgrade: opcode and the new code as a reference
sendUpgrade == Body("op", OP_UPGRADE, NoAddr, BigZero, 0)

\* a body with an opcode the wrapper never sends
sendOther == Body("op_flags", OP_OTHER, NoAddr, BigZero, 0)

\* a 64-bit amount as bits, and back
BigToBits(a) ==
    ToBits(a[4], 16) \o ToBits(a[3], 16) \o ToBits(a[2], 16) \o ToBits(a[1], 16)

BitsToBig(bits) ==
    <<FromBits(SubSeq(bits, 49, 64)), FromBits(SubSeq(bits, 33, 48)),
      FromBits(SubSeq(bits, 17, 32)), FromBits(SubSeq(bits, 1, 16)), 0>>

\* getAddXPMessageBody: the bits of the body
\*   opcode:32 | 0:4 | address | amount:64 | opId:256 when options.opId is truthy
getAddXPMessageBody(user, amount, opId) ==
    ToBits(IF Truthy(opId) THEN OP_ADD_XP_WITH_ID ELSE OP_ADD_XP, 32)
      \o ToBits(0, 4) \o storeAddress(user) \o BigToBits(amount)
      \o (IF Truthy(opId) THEN ToBits(opId, 256) ELSE << >>)

\* the fields recv_internal reads from a body: load_uint(32), load_uint(4),
\* load_msg_addr, load_uint(64); restLen bits are left unread and hold the
\* unsigned integer restValue
ParseAddXp(bits) ==
    LET o == load_uint(bits, 32)
        f == load_uint(o.rest, 4)
        u == load_msg_addr(f.rest)
        ok == o.ok /\ f.ok /\ u.ok /\ Len(u.rest) >= 64
    IN  [ok |-> ok, op |-> o.v, flags |-> f.v, user |-> u.v,
         amount |-> IF ok THEN BitsToBig(SubSeq(u.rest, 1, 64)) ELSE BigZero,
         restLen |-> IF ok THEN Len(u.rest) - 64 ELSE 0,
         restValue |-> IF ok THEN FromBits(SubSeq(u.rest, 65, Len(u.rest)))
                       ELSE 0]

\* slice_bits(in_body) == 0
BodyIsEmpty(b) == b.layout = "empty"

\* in_body~load_uint(4) succeeds after the opcode
HasFlags(b) == b.layout \in {"op_flags", "addxp", "addxp_id"}

\* in_body~load_msg_addr() and in_body~load_uint(64) succeed after the flags
HasAddrAmount(b) == b.layout \in {"addxp", "addxp_id"}

\* ───────── recv_internal ─────────
\* the outcome of one transaction: the exit code and the data left in c4
\* (a thrown exception leaves the storage as it was)
Outcome(exit, data) == [exit |-> exit, data |-> data]

\* variant: the owner check lets every sender through
IsOwner_any(sender, owner) == TRUE

\* throw_unless(ERR_NOT_OWNER, sender.slice_hash() == owner.slice_hash())
IsOwner(sender, owner) == slice_hash(sender) = slice_hash(owner)

\* variant: no cooldown at all
CooldownOk_off(last_op_time, now) == TRUE

\* variant: the cooldown is one second short
CooldownOk_short(last_op_time, now) ==
    (last_op_time > 0) => (now - last_op_time >= MIN_TIMEOUT - 1)

\* if (last_op_time > 0) throw_unless(ERR_TOO_SOON, now - last_op_time >= MIN_TIMEOUT)
CooldownOk(last_op_time, now) ==
    (last_op_time > 0) => (now - last_op_time >= MIN_TIMEOUT)

\* int new_xp = old_xp + amount
NewXp(old_xp, amount) == BigAdd(old_xp, amount)

\* throw_unless(ERR_OVERFLOW, new_xp >= old_xp);
\* throw_unless(ERR_OVERFLOW, new_xp <= 18446744073709551615)
OverflowOk(old_xp, new_xp) ==
    BigLeq(old_xp, new_xp) /\ BigLeq(new_xp, MAX_UINT64)

\* variant: the empty-body branch stores the sender whatever is stored
InitBranch_always(raw, sender) ==
    Outcome(EXIT_OK,
            _store_state(sender, CONTRACT_VERSION, 0, _load_state(raw).dict))

\* empty-body branch: initialise the owner when none is stored
InitBranch(raw, sender) ==
    LET st == _load_state(raw)
    IN  IF slice_bits(st.owner) = 0
        THEN Outcome(EXIT_OK,
                     _store_state(sender, CONTRACT_VERSION, 0, st.dict))
        ELSE Outcome(EXIT_OK, raw)

\* variant: the OP_ADD_XP branch stores the amount instead of the new total
AddXpBranch_set(raw, sender, user_addr, amount, now) ==
    LET st     == _load_state(raw)
        key    == slice_hash(user_addr)
        got    == udict_get(st.dict, key)
        old_xp == IF got.found THEN got.v ELSE BigZero
        new_xp == NewXp(old_xp, amount)
    IN  IF ~IsOwner(sender, st.owner) THEN Outcome(ERR_NOT_OWNER, raw)
        ELSE IF ~CooldownOk(st.last_op_time, now)
        THEN Outcome(ERR_TOO_SOON, raw)
        ELSE IF ~OverflowOk(old_xp, new_xp) THEN Outcome(ERR_OVERFLOW, raw)
        ELSE Outcome(EXIT_OK,
                     _store_state(st.owner, st.ver, now,
                                  udict_set_builder(st.dict, key, amount)))

\* variant: the overflow is checked before the cooldown
AddXpBranch_overflow_first(raw, sender, user_addr, amount, now) ==
    LET st     == _load_state(raw)
        key    == slice_hash(user_addr)
        got    == udict_get(st.dict, key)
        old_xp == IF got.found THEN got.v ELSE BigZero
        new_xp == NewXp(old_xp, amount)
    IN  IF ~IsOwner(sender, st.owner) THEN Outcome(ERR_NOT_OWNER, raw)
        ELSE IF ~OverflowOk(old_xp, new_xp) THEN Outcome(ERR_OVERFLOW, raw)
        ELSE IF ~CooldownOk(st.last_op_time, now)
        THEN Outcome(ERR_TOO_SOON, raw)
        ELSE IF ~FitsUint64(new_xp) THEN Outcome(EXIT_RANGE_CHECK, raw)
        ELSE Outcome(EXIT_OK,
                     _store_state(st.owner, st.ver, now,
                                  udict_set_builder(st.dict, key, new_xp)))

\* the OP_ADD_XP branch
AddXpBranch(raw, sender, user_addr, amount, now) ==
    LET st     == _load_state(raw)
        key    == slice_hash(user_addr)
        got    == udict_get(st.dict, key)
        old_xp == IF got.found THEN got.v ELSE BigZero
        new_xp == NewXp(old_xp, amount)
    IN  IF ~IsOwner(sender, st.owner) THEN Outcome(ERR_NOT_OWNER, raw)
        ELSE IF ~CooldownOk(st.last_op_time, now)
        THEN Outcome(ERR_TOO_SOON, raw)
        ELSE IF ~OverflowOk(old_xp, new_xp) THEN Outcome(ERR_OVERFLOW, raw)
        ELSE IF ~FitsUint64(new_xp) THEN Outcome(EXIT_RANGE_CHECK, raw)
        ELSE Outcome(EXIT_OK,
                     _store_state(st.owner, st.ver, now,
                                  udict_set_builder(st.dict, key, new_xp)))

recv_internal(raw, sender, in_body, now) ==
    IF BodyIsEmpty(in_body) THEN InitBranch(raw, sender)
    ELSE IF ~HasFlags(in_body) THEN Outcome(EXIT_CELL_UNDERFLOW, raw)
    ELSE IF in_body.op = OP_ADD_XP
    THEN IF ~HasAddrAmount(in_body) THEN Outcome(EXIT_CELL_UNDERFLOW, raw)
         ELSE AddXpBranch(raw, sender, in_body.user, in_body.amount, now)
    ELSE Outcome(EXIT_OK, raw)

\* ───────── get methods ─────────
\* variant: every user is reported without a balance
get_xp_absent(raw, user_addr) == BigZero

get_xp(raw, user_addr) ==
    LET got == udict_get(_load_state(raw).dict, slice_hash(user_addr))
    IN  IF got.found THEN got.v ELSE BigZero

\* get_xp_key: the dictionary key of a user
get_xp_key(user_addr) == slice_hash(user_addr)

get_owner(raw) == _load_state(raw).owner

get_version(raw) == _load_state(raw).ver

get_last_op_time(raw) == _load_state(raw).last_op_time

\* the result of a get method: its exit code and the value it leaves
Result(exit, v) == [exit |-> exit, v |-> v]

\* ERR_INVALID_OP of the developer documentation
ERR_INVALID_OP == 404

ERR_NEGATIVE_XP == 301
ERR_NEGATIVE_ARG == 310

\* variant: level 1 starts one point late
get_level_late(xp) ==
    IF xp < 0 THEN Result(ERR_NEGATIVE_XP, 0)
    ELSE IF xp <= 100 THEN Result(EXIT_OK, 0)
    ELSE IF xp < 250 THEN Result(EXIT_OK, 1)
    ELSE IF xp < 500 THEN Result(EXIT_OK, 2)
    ELSE Result(EXIT_OK, 3)

get_level(xp) ==
    IF ~(xp >= 0) THEN Result(ERR_NEGATIVE_XP, 0)
    ELSE IF xp < 100 THEN Result(EXIT_OK, 0)
    ELSE IF xp < 250 THEN Result(EXIT_OK, 1)
    ELSE IF xp < 500 THEN Result(EXIT_OK, 2)
    ELSE Result(EXIT_OK, 3)

get_rank(xp) == get_level(xp)

\* variant: the score is not clamped from above
get_reputation_unclamped(xp, d, r, bw) ==
    IF ~(xp >= 0 /\ d >= 0 /\ r >= 0 /\ bw >= 0)
    THEN Result(ERR_NEGATIVE_ARG, 0)
    ELSE LET score == (xp \div 10) + (d * 2) + (r * 5) - (bw * 10) + 18
         IN  Result(EXIT_OK, IF score < 0 THEN 0 ELSE score)

\* variant: the validation forgets the last argument
get_reputation_unchecked(xp, d, r, bw) ==
    IF ~(xp >= 0 /\ d >= 0 /\ r >= 0)
    THEN Result(ERR_NEGATIVE_ARG, 0)
    ELSE LET score  == (xp \div 10) + (d * 2) + (r * 5) - (bw * 10) + 18
             score1 == IF score < 0 THEN 0 ELSE score
         IN  Result(EXIT_OK, IF score1 > 100 THEN 100 ELSE score1)

get_reputation(xp, d, r, bw) ==
    IF ~(xp >= 0 /\ d >= 0 /\ r >= 0 /\ bw >= 0)
    THEN Result(ERR_NEGATIVE_ARG, 0)
    ELSE LET score  == (xp \div 10) + (d * 2) + (r * 5) - (bw * 10) + 18
             score1 == IF score < 0 THEN 0 ELSE score
         IN  Result(EXIT_OK, IF score1 > 100 THEN 100 ELSE score1)

\* arguments given to the derived formulas
XpInputs == {-1, 0, 99, 100, 249, 250, 499, 500, 1000}

\* ───────── state ─────────
VARIABLES
    data,        \* c4: the contract's persistent data
    now,         \* block time (unix seconds)
    msg,         \* the message processed by the last transaction
    exit_code,   \* exit code of the last transaction
    accepted,    \* history: per user, the sum of the amounts of applied AddXP
    lastApplied, \* history: time of the latest applied AddXP, NoTime if none
    usedOps,     \* history: (user, opId) pairs of AddXP-with-id messages of
                 \* the owner that ended with exit code 0
    fresh,       \* history: no transaction has run since deployment
    reply,       \* the last get-method call and what it returned
    eng          \* the reconciliation engine: its position in run, its
                 \* locals, the messages it has in flight, the audit store

ledgerVars ==
    <<data, now, msg, exit_code, accepted, lastApplied, usedOps, fresh>>

vars == <<ledgerVars, reply, eng>>

\* the returned value is filed under the name of the method that returned it
NoReply == [asked |-> FALSE, method |-> "", args |-> << >>,
            exit |-> EXIT_OK, v |-> ("" :> 0)]

Reply(method, args, res) ==
    [asked |-> TRUE, method |-> method, args |-> args,
     exit |-> res.exit, v |-> (method :> res.v)]

\* the value a call returned
ValueOf(r) == r.v[r.method]

\* ───────── the reconciliation engine: data ─────────
\* the wallet that signs the engine's messages (wallets.json, owner)
Wallet == "owner"

\* the target users of the batch, in processing order
TargetUsers == <<"user", "attacker">>

\* what client.getContractState reports, "error" when the call throws
ContractStates == {"active", "uninit", "error"}

\* values attached to messages, in nanoton: toNano('0.1'), toNano('0.05'),
\* toNano('0.2'), and the toNano('0.1') the retry adds
VALUE_DEPLOY == 100000000
VALUE_INIT == 50000000
VALUE_ADD_XP == 200000000
EXTRA_GAS == 100000000

\* the balance checks of the first poll and of the poll after the retry
FIRST_CHECKS == 15
RETRY_CHECKS == 10

\* the tries withRetry gives the AddXP submission
SUBMIT_TRIES == 3

\* the values generateOpId can return: randomBytes(16) read as an integer;
\* two draws of one run are taken to differ and none to be 0
OpIdDraws == {7, 8, 9, 10}

\* generateOpId: a value not drawn before in the run. An opId is only ever
\* compared for equality, so the draws are taken in increasing order
generateOpId(drawn) ==
    CHOOSE k \in OpIdDraws \ drawn : \A j \in OpIdDraws \ drawn : k <= j

\* no row of that address in the users table
NoRow == -1

\* Number(bigint): exact below 2^30, TooBig stands for the rest
Number(b) ==
    IF b[2] < 2^14 /\ b[3] = 0 /\ b[4] = 0 /\ b[5] = 0
    THEN b[1] + Base * b[2] ELSE TooBig

\* the engine before run is called
EngOff ==
    [pc        |-> "off",
     seen      |-> "active",
     idx       |-> 0,
     slept     |-> 0,
     opIdUsed  |-> NoOpId,
     beforeXP  |-> BigZero,
     xpBalance |-> BigZero,
     updated   |-> FALSE,
     checks    |-> 0,
     tries     |-> 0,
     txHash    |-> FALSE,
     net       |-> << >>,
     sent      |-> << >>,
     dbUsers   |-> [a \in Addr |-> NoRow],
     dbTxs     |-> << >>,
     dbOpen    |-> FALSE,
     drawn     |-> {},
     faults    |-> FALSE,
     others    |-> 0,
     applied   |-> {},
     late      |-> {},
     audited   |-> {}]

NoTime == -1

NoMsg == [sender |-> NoAddr, body |-> sendDeploy, delivered |-> FALSE]

Msg(sender, body) == [sender |-> sender, body |-> body, delivered |-> TRUE]

Init ==
    /\ data \in {createFromConfig}
                \cup {createForDeploy(o) : o \in Deployers}
                \cup {Deployed64(o) : o \in Deployers}
    /\ now = StartTime
    /\ msg = NoMsg
    /\ exit_code = EXIT_OK
    /\ accepted = [u \in Addr |-> BigZero]
    /\ lastApplied = NoTime
    /\ usedOps = {}
    /\ fresh = TRUE
    /\ reply = NoReply
    /\ eng = EngOff

\* one transaction: the contract processes an inbound internal message
Deliver(sender, body) ==
    LET out     == recv_internal(data, sender, body, now)
        applied == out.exit = EXIT_OK /\ body.op = OP_ADD_XP
                   /\ body.layout = "addxp"
    IN  /\ data' = out.data
        /\ exit_code' = out.exit
        /\ msg' = Msg(sender, body)
        /\ now' = now
        /\ accepted' = IF applied
                       THEN [accepted EXCEPT
                               ![body.user] = BigAdd(@, body.amount)]
                       ELSE accepted
        /\ lastApplied' = IF applied THEN now ELSE lastApplied
        /\ usedOps' = IF /\ body.layout = "addxp_id"
                         /\ out.exit = EXIT_OK
                         /\ IsOwner(sender, get_owner(data))
                      THEN usedOps \cup {<<body.user, body.opId>>}
                      ELSE usedOps
        /\ fresh' = FALSE
        /\ reply' = NoReply

Initialize ==
    /\ \E s \in Senders : Deliver(s, sendDeploy)
    /\ UNCHANGED eng

AddXP ==
    /\ \E s \in Senders, u \in Users, a \in Amounts :
          Deliver(s, sendAddXP(u, a, NoOpId))
    /\ UNCHANGED eng

AddXPWithId ==
    /\ \E s \in Senders, u \in Users, a \in Amounts, k \in OpIds \ {0} :
          Deliver(s, sendAddXP(u, a, k))
    /\ UNCHANGED eng

Upgrade ==
    /\ \E s \in Senders : Deliver(s, sendUpgrade)
    /\ UNCHANGED eng

OtherOp ==
    /\ \E s \in Senders : Deliver(s, sendOther)
    /\ UNCHANGED eng

\* block time advances between transactions
Tick ==
    /\ \E d \in Deltas : now + d <= MaxTime /\ now' = now + d
    /\ msg' = NoMsg
    /\ exit_code' = EXIT_OK
    /\ reply' = NoReply
    /\ UNCHANGED <<data, accepted, lastApplied, usedOps, fresh, eng>>

\* anyone runs a get method of the ledger; get methods never call set_data
Query ==
    /\ \/ \E u \in Users :
             reply' = Reply("get_xp", <<u>>, Result(EXIT_OK, get_xp(data, u)))
       \/ \E u \in Users :
             reply' = Reply("get_xp_key", <<u>>, Result(EXIT_OK, get_xp_key(u)))
       \/ reply' = Reply("get_owner", << >>, Result(EXIT_OK, get_owner(data)))
       \/ reply' = Reply("get_version", << >>,
                         Result(EXIT_OK, get_version(data)))
       \/ reply' = Reply("get_last_op_time", << >>,
                         Result(EXIT_OK, get_last_op_time(data)))
    /\ msg' = NoMsg
    /\ exit_code' = EXIT_OK
    /\ UNCHANGED <<data, now, accepted, lastApplied, usedOps, fresh, eng>>

Next ==
    \/ Initialize
    \/ AddXP
    \/ AddXPWithId
    \/ Upgrade
    \/ OtherOp
    \/ Tick
    \/ Query

Spec == Init /\ [][Next]_vars

\* ───────── the derived formulas on their own ─────────
InitPure ==
    /\ data = createForDeploy("owner")
    /\ now = StartTime
    /\ msg = NoMsg
    /\ exit_code = EXIT_OK
    /\ accepted = [u \in Addr |-> BigZero]
    /\ lastApplied = NoTime
    /\ usedOps = {}
    /\ fresh = TRUE
    /\ reply = NoReply
    /\ eng = EngOff

CallLevel ==
    /\ \E xp \in XpInputs : reply' = Reply("get_level", <<xp>>, get_level(xp))
    /\ UNCHANGED <<ledgerVars, eng>>

CallRank ==
    /\ \E xp \in XpInputs : reply' = Reply("get_rank", <<xp>>, get_rank(xp))
    /\ UNCHANGED <<ledgerVars, eng>>

CallReputation ==
    /\ \E xp \in XpInputs, d \in {-1, 0, 5, 10, 20}, r \in {-1, 0, 1, 5, 10},
          bw \in {-1, 0, 5, 10} :
          reply' = Reply("get_reputation", <<xp, d, r, bw>>,
                         get_reputation(xp, d, r, bw))
    /\ UNCHANGED <<ledgerVars, eng>>

\* the client builds an AddXP body and the ledger's parser reads it
BuildAddXp ==
    /\ \E u \in Users, a \in Amounts \cup {MAX_UINT64},
          k \in OpIds \cup {NoOpId} :
          reply' = Reply("getAddXPMessageBody",
                         [user |-> u, amount |-> a, opId |-> k],
                         Result(EXIT_OK,
                                ParseAddXp(getAddXPMessageBody(u, a, k))))
    /\ UNCHANGED <<ledgerVars, eng>>

\* ───────── the client's getters ─────────
\* what provider.get hands back to a getter: the stack of the get method
\* ("ok", with the value on it), an empty or null stack entry ("null"), an
\* entry of another type ("malformed"), or a rejected promise ("transport")
ProviderResponses ==
    {[kind |-> k, v |-> v] :
        k \in {"ok", "null", "malformed", "transport"}, v \in {0, 5}}

\* exit of a getter that threw
Thrown == -1

\* what a getter returns for null (and for 0n, the same number as a cell id)
NoValue == 0

\* stack.readBigNumber / readAddress: throws unless the entry has the type
readBigNumber(resp) ==
    IF resp.kind = "ok" THEN Result(EXIT_OK, resp.v) ELSE Result(Thrown, NoValue)

\* wrappers/XPContract.ts getUserHistory: provider.get is awaited outside
\* the try, readCell inside it; whatever readCell throws becomes null
getUserHistory(resp) ==
    IF resp.kind = "transport" THEN Result(Thrown, NoValue)
    ELSE IF resp.kind = "ok" THEN Result(EXIT_OK, resp.v)
    ELSE Result(EXIT_OK, NoValue)

\* scripts/check-balance.ts XPContract.getXP: the whole call is in a try
\* whose catch returns 0n; an empty stack returns 0n as well
getXP_checkBalance(resp) ==
    IF resp.kind = "transport" THEN Result(EXIT_OK, 0)
    ELSE IF resp.kind = "null" THEN Result(EXIT_OK, 0)
    ELSE IF resp.kind = "ok" THEN Result(EXIT_OK, resp.v)
    ELSE Result(EXIT_OK, 0)

\* the getters of the wrapper
WrapperGetters ==
    {"getXP", "getXPKey", "getOwner", "getVersion", "getLastOpTime",
     "getUserHistory"}

\* a script calls a getter of the wrapper: getXP, getXPKey, getOwner,
\* getVersion and getLastOpTime await provider.get and read the stack,
\* nothing is caught
CallWrapperGetter ==
    /\ \E g \in WrapperGetters, resp \in ProviderResponses :
          reply' = Reply(g, [response |-> resp],
                         IF g = "getUserHistory" THEN getUserHistory(resp)
                         ELSE readBigNumber(resp))
    /\ UNCHANGED <<ledgerVars, eng>>

\* check-balance.ts reads a balance through its own getXP
CallCheckBalance ==
    /\ \E resp \in ProviderResponses :
          reply' = Reply("check-balance.getXP", [response |-> resp],
                         getXP_checkBalance(resp))
    /\ UNCHANGED <<ledgerVars, eng>>

\* ───────── withRetry ─────────
\* the largest number of tries a caller asks for
MaxRetries == 3

\* the Error('Unreachable') thrown after the loop
Unreachable == 0

\* fn as the outcomes of its successive invocations: the i-th resolves with
\* the value i or rejects with the error i
FnRuns ==
    {[i \in 1 .. MaxRetries + 1 |-> [ok |-> oks[i], v |-> i]] :
        oks \in [1 .. MaxRetries + 1 -> BOOLEAN]}

\* the loop of withRetry, from iteration i on: the value fn resolved with
\* or the error thrown, and how often fn was invoked
RECURSIVE withRetry_loop(_, _, _)
withRetry_loop(fn, retries, i) ==
    IF i >= retries
    THEN Result(Thrown, [v |-> Unreachable, calls |-> i])
    ELSE IF fn[i + 1].ok
    THEN Result(EXIT_OK, [v |-> fn[i + 1].v, calls |-> i + 1])
    ELSE IF i = retries - 1
    THEN Result(Thrown, [v |-> fn[i + 1].v, calls |-> i + 1])
    ELSE withRetry_loop(fn, retries, i + 1)

\* variant: one try more than asked for
withRetry_one_more(fn, retries) == withRetry_loop(fn, retries + 1, 0)

\* withRetry(fn, retries, delayMs)
withRetry(fn, retries) == withRetry_loop(fn, retries, 0)

\* a script runs a function under withRetry
CallWithRetry ==
    /\ \E fn \in FnRuns, retries \in 0 .. MaxRetries :
          reply' = Reply("withRetry", [fn |-> fn, retries |-> retries],
                         withRetry(fn, retries))
    /\ UNCHANGED <<ledgerVars, eng>>

\* add-xp.ts submits the AddXP of one user: withRetry around sendAddXP with
\* the opId chosen at the head of the loop body; every invocation hands one
\* message to the wallet
CallSubmitAddXP ==
    /\ \E fn \in FnRuns, u \in Users, k \in OpIdDraws :
       \E r \in {withRetry(fn, SUBMIT_TRIES)} :
          reply' = Reply("submitAddXP", [fn |-> fn, user |-> u, opId |-> k],
                         Result(r.exit,
                                [v |-> r.v.v, calls |-> r.v.calls,
                                 handed |-> [i \in 1 .. r.v.calls |->
                                                sendAddXP(u, Big(1), k)]]))
    /\ UNCHANGED <<ledgerVars, eng>>

\* ───────── the storage cell, written and read back ─────────
\* the state loader reads a data cell: the one the wrapper deploys with
\* (either variant), or one _store_state wrote, for the ledger's and the
\* wrapper's version, three times and balance maps of 0, 1 and 2 entries
LoadState ==
    /\ \E o \in Addr :
          \/ \E p \in {ParseStateCell(createForDeploy64(o))} :
                reply' = Reply("createForDeploy", [owner |-> o],
                               Result(IF p.ok THEN EXIT_OK
                                      ELSE EXIT_CELL_UNDERFLOW, p.st))
          \/ \E p \in {ParseStateCell(createForDeploy32(o))} :
                reply' = Reply("createForDeploy32", [owner |-> o],
                               Result(IF p.ok THEN EXIT_OK
                                      ELSE EXIT_CELL_UNDERFLOW, p.st))
          \/ \E v \in {CONTRACT_VERSION, 4}, t \in {0, StartTime, MaxTime},
                dict \in {EmptyDict}
                         \cup {[k \in {slice_hash(u)} |-> a] :
                                  u \in Users, a \in Amounts}
                         \cup {[k \in {slice_hash(u) : u \in Users} |-> Big(2)]} :
             \E p \in {ParseStateCell(StoreStateCell(o, v, t, dict))} :
                reply' = Reply("_store_state",
                               [owner |-> o, ver |-> v, last_op_time |-> t,
                                dict |-> dict],
                               Result(IF p.ok THEN EXIT_OK
                                      ELSE EXIT_CELL_UNDERFLOW, p.st))
    /\ UNCHANGED <<ledgerVars, eng>>

NextPure ==
    \/ CallWithRetry
    \/ CallSubmitAddXP
    \/ CallWrapperGetter
    \/ CallCheckBalance
    \/ CallLevel
    \/ CallRank
    \/ CallReputation
    \/ BuildAddXp

SpecPure == InitPure /\ [][NextPure]_vars

SpecStorage == InitPure /\ [][LoadState]_vars

\* ───────── the documented ledger: operation history ─────────
\* MAX_HISTORY of the developer documentation: entries kept per user
MAX_HISTORY == 100

\* number of AddXP that the history run applies
MaxInserts == 103

\* a history entry: cell{amount, ts, opId}
HistoryEntry(amount, ts, opId) ==
    [amount |-> amount, timestamp |-> ts, opId |-> opId]

\* the entry of a non-empty history with the least timestamp
Oldest(h) == CHOOSE e \in h : \A f \in h : e.timestamp <= f.timestamp

\* the entry of a non-empty history with the least key
LeastKey(h) == CHOOSE e \in h : \A f \in h : e.opId <= f.opId

\* variant: over the bound, the entry with the least key is deleted
history_insert_min_key(h, amount, ts, opId) ==
    IF \E e \in h : e.opId = opId THEN h
    ELSE LET added == h \cup {HistoryEntry(amount, ts, opId)}
         IN  IF Cardinality(added) > MAX_HISTORY
             THEN added \ {LeastKey(added)}
             ELSE added

\* insert into a user's bounded history map, keyed by opId: an opId already
\* there is not inserted again; over the bound the oldest entry is evicted
history_insert(h, amount, ts, opId) ==
    IF \E e \in h : e.opId = opId THEN h
    ELSE LET added == h \cup {HistoryEntry(amount, ts, opId)}
         IN  IF Cardinality(added) > MAX_HISTORY
             THEN added \ {Oldest(added)}
             ELSE added

\* the storage root with its history map, as deployed
DeployedWithHistory(owner) ==
    [owner |-> owner, ver |-> 1, last_op_time |-> 0,
     dict |-> EmptyDict, null |-> FALSE, history |-> [u \in Users |-> {}]]

\* AddXP with an opId on the documented ledger: owner, cooldown, overflow,
\* duplicate opId, then balance, history and last_op_time are written
add_xp_with_id(raw, sender, user, amount, opId, clock) ==
    LET key == slice_hash(user)
        got == udict_get(raw.dict, key)
        old == IF got.found THEN got.v ELSE BigZero
    IN  IF slice_hash(sender) # slice_hash(raw.owner)
        THEN Outcome(ERR_NOT_OWNER, raw)
        ELSE IF raw.last_op_time > 0 /\ clock - raw.last_op_time < MIN_TIMEOUT
        THEN Outcome(ERR_TOO_SOON, raw)
        ELSE IF ~FitsUint64(BigAdd(old, amount))
        THEN Outcome(ERR_OVERFLOW, raw)
        ELSE IF \E e \in raw.history[user] : e.opId = opId
        THEN Outcome(ERR_INVALID_OP, raw)   \* DuplicateOp has no code of its own
        ELSE Outcome(EXIT_OK,
                 [raw EXCEPT
                    !.dict = udict_set_builder(@, key, BigAdd(old, amount)),
                    !.history[user] = history_insert(@, amount, clock, opId),
                    !.last_op_time = clock])

\* the opIds of the run: the first is drawn low or high, the following ones
\* ascend from a low start and descend from a high one
HighOpId == 1000

NextOpId(h) ==
    IF h = {} THEN {1, HighOpId}
    ELSE LET newest == CHOOSE e \in h : \A f \in h : f.timestamp <= e.timestamp
         IN  IF newest.opId < HighOpId \div 2 THEN {newest.opId + 1}
             ELSE {newest.opId - 1}

InitHistory ==
    /\ data = DeployedWithHistory("owner")
    /\ now = StartTime
    /\ msg = NoMsg
    /\ exit_code = EXIT_OK
    /\ accepted = [u \in Addr |-> BigZero]
    /\ lastApplied = NoTime
    /\ usedOps = {}
    /\ fresh = TRUE
    /\ reply = NoReply
    /\ eng = EngOff

\* an AddXP(user, 1, opId) arrives: the owner's at once or when the cooldown
\* has passed, another sender's at once
HistAddXP ==
    /\ Cardinality(usedOps) < MaxInserts
    /\ \E sender \in Senders, opId \in NextOpId(data.history["user"]) :
       \E wait \in {0} \cup (IF sender = "owner" THEN {MIN_TIMEOUT} ELSE {}) :
          LET out == add_xp_with_id(data, sender, "user", Big(1), opId,
                                    now + wait)
          IN  /\ now + wait <= StartTime + MaxInserts * MIN_TIMEOUT
              /\ now' = now + wait
              /\ data' = out.data
              /\ exit_code' = out.exit
              /\ usedOps' = IF out.exit = EXIT_OK
                            THEN usedOps \cup {<<"user", opId>>}
                            ELSE usedOps
              /\ lastApplied' = IF out.exit = EXIT_OK THEN now' ELSE lastApplied
    /\ fresh' = FALSE
    /\ UNCHANGED <<msg, accepted, reply, eng>>

NextHistory == HistAddXP

SpecHistory == InitHistory /\ [][NextHistory]_vars

\* ───────── the reconciliation engine: run ─────────
\* calculateDelay: the pre-flight delay in ms, clock in seconds
calculateDelay(lastOpTime, clock) ==
    IF lastOpTime = 0 THEN 0
    ELSE IF clock - lastOpTime < 60 THEN 10000
    ELSE IF clock - lastOpTime < 300 THEN 5000
    ELSE 2000

\* the user being processed
CurrentUser(e) == TargetUsers[e.idx]

\* a message handed to the wallet: what it is, for which user of the batch,
\* the opId given to sendAddXP, the body and the attached value
Message(e, kind, opId, body, value) ==
    [kind |-> kind, idx |-> e.idx, opId |-> opId, body |-> body,
     value |-> value, seq |-> Len(e.sent) + 1]

\* provider.internal(via, ...): the message leaves for the ledger
Send(e, m) == [e EXCEPT !.net = Append(@, m), !.sent = Append(@, m)]

\* createHighGasSender: every message of the sender carries extraGas more
createHighGasSender(value, extraGas) == value + extraGas

\* the variables declared in the loop body end with the iteration
EndOfBody(e) ==
    [e EXCEPT !.opIdUsed = NoOpId, !.txHash = FALSE, !.updated = FALSE,
              !.checks = 0, !.tries = 0, !.beforeXP = BigZero,
              !.xpBalance = BigZero]

\* continue / the end of the loop body: the next target user, or cleanup
NextUser(e) ==
    IF e.idx < Len(TargetUsers)
    THEN [EndOfBody(e) EXCEPT !.idx = @ + 1, !.pc = "user_start"]
    ELSE [EndOfBody(e) EXCEPT !.pc = "cleanup"]

\* a Transaction row; meta tells whether contractOwner, contractVersion and
\* lastOpTime were set on it
Row(e, status, txHash, meta) ==
    [opId |-> e.opIdUsed, status |-> status, user |-> CurrentUser(e),
     txHash |-> txHash, meta |-> meta]

\* variant: the table takes a row without its required columns
SaveRow_lenient(e, row, saved) ==
    IF saved THEN [e EXCEPT !.dbTxs = Append(@, row)]
    ELSE [e EXCEPT !.faults = TRUE]

\* repository.save(transaction); contract_owner, contract_version and
\* last_op_time are NOT NULL columns, so a row without them is refused;
\* nothing is written when the save throws (saved tells whether the
\* database itself worked)
SaveRow(e, row, saved) ==
    IF ~saved THEN [e EXCEPT !.faults = TRUE]
    ELSE IF row.meta THEN [e EXCEPT !.dbTxs = Append(@, row)]
    ELSE e

\* the audit step of the user being processed has run
Audited(e) == [e EXCEPT !.audited = @ \cup {e.idx}]

\* a call that threw
Failed(e) == [e EXCEPT !.faults = TRUE]

\* variant: the retry is issued whatever the first poll saw
ShouldRetry_always(updated) == TRUE

\* if (!updated) { ... retry ... }
ShouldRetry(updated) == ~updated

\* variant: a first poll that saw no increase goes on with the next user
AfterPoll_continue(e) ==
    IF ShouldRetry(e.updated) THEN NextUser(e)
    ELSE [e EXCEPT !.pc = "audit", !.checks = 0]

\* where run goes after the first poll
AfterPoll(e) ==
    IF ShouldRetry(e.updated) THEN [e EXCEPT !.pc = "retry"]
    ELSE [e EXCEPT !.pc = "audit", !.checks = 0]

\* variant: an observed increase is recorded with the amount sent on top
Check_credited(e, ok, raw) ==
    LET current == get_xp(raw, CurrentUser(e))
    IN  IF ok /\ BigLt(e.beforeXP, current)
        THEN [e EXCEPT !.checks = @ + 1,
                       !.xpBalance = BigAdd(current, Big(1)),
                       !.updated = TRUE]
        ELSE [e EXCEPT !.checks = @ + 1]

\* one balance check of a poll loop: getXP, compared with the snapshot
Check(e, ok, raw) ==
    LET current == get_xp(raw, CurrentUser(e))
    IN  IF ok /\ BigLt(e.beforeXP, current)
        THEN [e EXCEPT !.checks = @ + 1, !.xpBalance = current,
                       !.updated = TRUE]
        ELSE [e EXCEPT !.checks = @ + 1]

\* a step of the engine leaves the ledger alone
EngStep(e) ==
    /\ eng' = e
    /\ UNCHANGED <<ledgerVars, reply>>

InitEngine ==
    /\ data \in {createFromConfig} \cup {createForDeploy(o) : o \in Senders}
    /\ now = StartTime
    /\ msg = NoMsg
    /\ exit_code = EXIT_OK
    /\ accepted = [u \in Addr |-> BigZero]
    /\ lastApplied = NoTime
    /\ usedOps = {}
    /\ fresh = TRUE
    /\ reply = NoReply
    /\ eng = [EngOff EXCEPT !.pc = "state_check", !.dbOpen = TRUE]

\* contract state check: a contract not seen active gets sendDeploy
EngStateCheck ==
    /\ eng.pc = "state_check"
    /\ \E state \in ContractStates, ok \in BOOLEAN :
          LET e == [eng EXCEPT !.seen = state]
          IN  IF state = "error"
              THEN EngStep(Failed([e EXCEPT !.pc = "crashed"]))
              ELSE IF state = "active"
              THEN EngStep([e EXCEPT !.pc = "owner_check"])
              ELSE IF ok
              THEN EngStep(Send([e EXCEPT !.pc = "init"],
                                Message(e, "deploy", NoOpId, sendDeploy,
                                        VALUE_DEPLOY)))
              ELSE EngStep(Failed([e EXCEPT !.pc = "returned"]))

\* sendInit after the deployment wait
EngSendInit ==
    /\ eng.pc = "init"
    /\ \E ok \in BOOLEAN :
          IF ok
          THEN EngStep(Send([eng EXCEPT !.pc = "owner_check"],
                            Message(eng, "init", NoOpId, sendDeploy,
                                    VALUE_INIT)))
          ELSE EngStep(Failed([eng EXCEPT !.pc = "returned"]))

\* owner verification: getOwner, the two address hashes compared
EngOwnerCheck ==
    /\ eng.pc = "owner_check"
    /\ \E ok \in BOOLEAN :
          IF ~ok \/ get_owner(data) = NoAddr
          THEN EngStep(Failed([eng EXCEPT !.pc = "crashed"]))
          ELSE IF slice_hash(get_owner(data)) # slice_hash(Wallet)
          THEN EngStep([eng EXCEPT !.pc = "aborted", !.dbOpen = FALSE])
          ELSE EngStep([eng EXCEPT !.pc = "timing"])

\* timing configuration: getLastOpTime, then a sleep of twice the delay
EngTiming ==
    /\ eng.pc = "timing"
    /\ \E ok \in BOOLEAN :
          IF ~ok THEN EngStep(Failed([eng EXCEPT !.pc = "crashed"]))
          ELSE EngStep(NextUser(
                  [eng EXCEPT !.slept =
                      2 * calculateDelay(get_last_op_time(data), now)]))

\* the head of the loop body: getTransactions under withRetry (outside any
\* try), then generateOpId
EngUserStart ==
    /\ eng.pc = "user_start"
    /\ \E ok \in BOOLEAN :
          IF ~ok THEN EngStep(Failed([eng EXCEPT !.pc = "crashed"]))
          ELSE LET k == generateOpId(eng.drawn)
               IN EngStep([eng EXCEPT !.pc = "snapshot", !.opIdUsed = k,
                                      !.drawn = @ \cup {k},
                                      !.txHash = FALSE, !.updated = FALSE,
                                      !.checks = 0, !.tries = 0,
                                      !.beforeXP = BigZero,
                                      !.xpBalance = BigZero])

\* the balance before the send; 0 when getXP throws
EngSnapshot ==
    /\ eng.pc = "snapshot"
    /\ \E ok \in BOOLEAN :
          EngStep([(IF ok THEN eng ELSE Failed(eng)) EXCEPT
                      !.pc = "user_save",
                      !.beforeXP = IF ok THEN get_xp(data, CurrentUser(eng))
                                   ELSE BigZero])

\* variant: after a failed save of the User row the submission goes ahead
AfterUserSave_submit(e, ok) ==
    IF ok
    THEN [e EXCEPT !.pc = "submit",
                   !.dbUsers[CurrentUser(e)] =
                       IF @ = NoRow THEN Number(e.beforeXP) ELSE @]
    ELSE [Failed(e) EXCEPT !.pc = "submit"]

\* the User row is found or created, and saved; when that throws, continue
AfterUserSave(e, ok) ==
    IF ok
    THEN [e EXCEPT !.pc = "submit",
                   !.dbUsers[CurrentUser(e)] =
                       IF @ = NoRow THEN Number(e.beforeXP) ELSE @]
    ELSE NextUser(Failed(e))

\* the User row is found or created, and saved; a failure skips the user
EngUserSave ==
    /\ eng.pc = "user_save"
    /\ \E ok \in BOOLEAN : EngStep(AfterUserSave(eng, ok))

\* one try of withRetry(sendAddXP, 3, 3000); the third failure is thrown to
\* the catch, which writes a failed row and goes on with the next user
EngSubmit ==
    /\ eng.pc = "submit"
    /\ \E ok \in BOOLEAN, saved \in BOOLEAN :
          IF ok
          THEN EngStep(Send([eng EXCEPT !.pc = "confirm"],
                            Message(eng, "first", eng.opIdUsed,
                                    sendAddXP(CurrentUser(eng), Big(1),
                                              eng.opIdUsed),
                                    VALUE_ADD_XP)))
          ELSE IF eng.tries + 1 < SUBMIT_TRIES
          THEN EngStep(Failed([eng EXCEPT !.tries = @ + 1]))
          ELSE EngStep(NextUser(SaveRow(Audited(Failed([eng EXCEPT !.tries = @ + 1])),
                                        Row(eng, "failed", FALSE, FALSE), saved)))

\* getTransactionHash and waitForNewContractTx; an error goes to the catch
EngConfirm ==
    /\ eng.pc = "confirm"
    /\ \E found \in {"hash", "none", "error"}, saved \in BOOLEAN :
          IF found = "error"
          THEN EngStep(NextUser(SaveRow(Audited(Failed(eng)),
                                        Row(eng, "failed", FALSE, FALSE), saved)))
          ELSE EngStep([eng EXCEPT !.pc = "poll",
                                   !.txHash = (found = "hash"),
                                   !.xpBalance = eng.beforeXP,
                                   !.updated = FALSE, !.checks = 0])

\* one of the 15 balance checks of the first poll
EngPoll ==
    /\ eng.pc = "poll"
    /\ \E ok \in BOOLEAN :
          LET e == Check(IF ok THEN eng ELSE Failed(eng), ok, data)
          IN  IF e.updated \/ e.checks = FIRST_CHECKS
              THEN EngStep(AfterPoll(e))
              ELSE EngStep(e)

\* the retry: a new opId, a sender with 0.1 TON more, sendAddXP once
EngRetry ==
    /\ eng.pc = "retry"
    /\ \E ok \in BOOLEAN :
          LET retryOpId == generateOpId(eng.drawn)
              e == [eng EXCEPT !.opIdUsed = retryOpId,
                               !.drawn = @ \cup {retryOpId}]
          IN  IF ok
              THEN EngStep(Send([e EXCEPT !.pc = "retry_confirm"],
                                Message(e, "retry", retryOpId,
                                        sendAddXP(CurrentUser(e), Big(1),
                                                  retryOpId),
                                        createHighGasSender(VALUE_ADD_XP,
                                                            EXTRA_GAS))))
              ELSE EngStep(Failed([e EXCEPT !.pc = "audit", !.checks = 0]))

\* the retry's getTransactionHash and waitForNewContractTx
EngRetryConfirm ==
    /\ eng.pc = "retry_confirm"
    /\ \E ok \in BOOLEAN :
          IF ok THEN EngStep([eng EXCEPT !.pc = "retry_poll", !.checks = 0])
          ELSE EngStep(Failed([eng EXCEPT !.pc = "audit", !.checks = 0]))

\* one of the 10 balance checks after the retry
EngRetryPoll ==
    /\ eng.pc = "retry_poll"
    /\ \E ok \in BOOLEAN :
          LET e == Check(IF ok THEN eng ELSE Failed(eng), ok, data)
          IN  IF e.updated \/ e.checks = RETRY_CHECKS
              THEN EngStep([e EXCEPT !.pc = "audit", !.checks = 0])
              ELSE EngStep(e)

\* the audit write. After an observed increase: the user's xp is saved, the
\* row gets getOwner, getVersion and getLastOpTime and is saved with status
\* success; whatever throws on the way is logged. Otherwise: a failed row
\* without those three columns is saved, then the diagnostics read the
\* wallet balance outside any try
EngAudit ==
    /\ eng.pc = "audit"
    /\ \E outcome \in {"saved", "user_failed", "row_failed", "diag_failed"} :
          LET e == Audited(eng)
          IN  IF eng.updated
              THEN IF outcome = "user_failed"
                   THEN EngStep(Failed([e EXCEPT !.pc = "history"]))
                   ELSE EngStep(SaveRow(
                           [e EXCEPT !.pc = "history",
                                     !.dbUsers[CurrentUser(eng)] =
                                         Number(eng.xpBalance)],
                           Row(eng, "success", eng.txHash, TRUE),
                           outcome = "saved"))
              ELSE LET f == SaveRow([e EXCEPT !.pc = "history"],
                                    Row(eng, "failed", eng.txHash, FALSE),
                                    outcome # "row_failed")
                   IN  IF outcome = "diag_failed"
                       THEN EngStep(Failed([f EXCEPT !.pc = "crashed"]))
                       ELSE EngStep(f)

\* history verification: getUserHistory, logged only
EngHistory ==
    /\ eng.pc = "history"
    /\ EngStep(NextUser(eng))

\* cleanup: the database connection is closed
EngCleanup ==
    /\ eng.pc = "cleanup"
    /\ EngStep([eng EXCEPT !.pc = "done", !.dbOpen = FALSE])

\* m is a first attempt whose user's retry has been sent already
RetryAlreadySent(e, m) ==
    /\ m.kind = "first"
    /\ \E j \in 1 .. Len(e.sent) :
          e.sent[j].kind = "retry" /\ e.sent[j].idx = m.idx

\* the ledger processes the oldest message of the engine still in flight:
\* the messages of one wallet to one contract are processed in the order
\* they were sent; a message that is never processed, and those behind it,
\* stay in flight for ever
NetDeliver ==
    /\ eng.net # << >>
    /\ Deliver(Wallet, Head(eng.net).body)
    /\ eng' = [eng EXCEPT !.net = Tail(@),
                          !.applied = IF accepted' # accepted
                                      THEN @ \cup {Head(eng.net).seq}
                                      ELSE @,
                          !.late = IF RetryAlreadySent(eng, Head(eng.net))
                                   THEN @ \cup {Head(eng.net).seq}
                                   ELSE @]

\* another client of the owner adds xp to a target user meanwhile
OtherClientAddXP ==
    /\ eng.others < MaxOthers
    /\ \E i \in 1 .. Len(TargetUsers) :
          Deliver(Wallet, sendAddXP(TargetUsers[i], Big(2), NoOpId))
    /\ eng' = [eng EXCEPT !.others = @ + 1]

\* time passes while the run waits: in a sleep, on the network, on the
\* database
EngClock ==
    /\ now + MIN_TIMEOUT <= MaxClock
    /\ now' = now + MIN_TIMEOUT
    /\ UNCHANGED <<data, msg, exit_code, accepted, lastApplied, usedOps,
                   fresh, reply, eng>>

NextEngine ==
    \/ EngStateCheck
    \/ EngSendInit
    \/ EngOwnerCheck
    \/ EngTiming
    \/ EngUserStart
    \/ EngSnapshot
    \/ EngUserSave
    \/ EngSubmit
    \/ EngConfirm
    \/ EngPoll
    \/ EngRetry
    \/ EngRetryConfirm
    \/ EngRetryPoll
    \/ EngAudit
    \/ EngHistory
    \/ EngCleanup
    \/ NetDeliver
    \/ OtherClientAddXP

SpecEngine == InitEngine /\ [][NextEngine]_vars

\* the run with the time it takes
NextTimed ==
    \/ NextEngine
    \/ EngClock

SpecTimed == InitEngine /\ [][NextTimed]_vars

\* ───────── properties ─────────
\* the step is a transaction on a message body of the given layout
Processed(layout) == msg'.delivered /\ msg'.body.layout = layout

\* the step is a transaction on an AddXP (0x1234) sent by the stored owner
OwnerAddXp ==
    Processed("addxp") /\ slice_hash(msg'.sender) = slice_hash(get_owner(data))

\* the last applied AddXP is less than MIN_TIMEOUT seconds old
InCooldown == lastApplied # NoTime /\ now - lastApplied < MIN_TIMEOUT

C2_SingleWriter ==
    [][ (~data.null)
        => /\ ~data'.null
           /\ get_owner(data') = get_owner(data)
           /\ (msg'.delivered
               /\ slice_hash(msg'.sender) # slice_hash(get_owner(data)))
              => data' = data ]_vars

\* an empty-body message of a sender who is not the owner was processed on a
\* ledger that holds balances
C2_Witness ==
    /\ ~data.null
    /\ msg.delivered /\ msg.body.layout = "empty"
    /\ msg.sender # get_owner(data)
    /\ get_xp(data, "user") # BigZero

LastOpTimeMatches ==
    get_last_op_time(data) = IF lastApplied = NoTime THEN 0 ELSE lastApplied

\* C4: two applied AddXP are at least MIN_TIMEOUT seconds apart, last_op_time
\* is always the time of the latest applied AddXP (0 if none), and a rejected
\* AddXP does not move last_op_time
C4_OneWritePerWindow ==
    [][ /\ LastOpTimeMatches /\ LastOpTimeMatches'
        /\ (Processed("addxp") /\ exit_code' = EXIT_OK)
           => (lastApplied = NoTime \/ now - lastApplied >= MIN_TIMEOUT)
        /\ (Processed("addxp") /\ exit_code' # EXIT_OK)
           => get_last_op_time(data') = get_last_op_time(data) ]_vars

\* a second AddXP was applied exactly MIN_TIMEOUT seconds after the first
C4_Witness ==
    /\ msg.delivered /\ msg.body.layout = "addxp"
    /\ exit_code = EXIT_OK
    /\ lastApplied = now
    /\ now = StartTime + MIN_TIMEOUT
    /\ get_last_op_time(data) = now
    /\ \E u \in Users : BigLt(msg.body.amount, accepted[u])

\* old balance + amount does not fit 64 bits
WouldOverflow(raw, user, amount) ==
    ~FitsUint64(BigAdd(get_xp(raw, user), amount))

\* C5: in every reachable state, also right after an applied AddXP, an
\* owner's AddXP that would take the user's balance above 2^64-1 ends with
\* exit code 402 and leaves the user's balance unchanged
C5_OverflowRejected ==
    [][ (OwnerAddXp /\ WouldOverflow(data, msg'.body.user, msg'.body.amount))
        => /\ exit_code' = ERR_OVERFLOW
           /\ get_xp(data', msg'.body.user) = get_xp(data, msg'.body.user)
      ]_vars

\* every stored balance is an unsigned 64-bit value
BalancesInRange(raw) ==
    \A k \in DOMAIN _load_state(raw).dict :
        LET v == _load_state(raw).dict[k]
        IN  /\ FitsUint64(v)
            /\ \A i \in 1 .. Len(v) : v[i] >= 0 /\ v[i] < Base

\* C6: every stored balance lies in [0, 2^64-1] and no transaction makes a
\* user's balance smaller
C6_BalancesNeverDecrease ==
    [][ /\ BalancesInRange(data) /\ BalancesInRange(data')
        /\ \A u \in Addr : BigLeq(get_xp(data, u), get_xp(data', u)) ]_vars

\* a balance stands at 2^64-2 and a further AddXP for it was refused
C6_Witness ==
    /\ msg.delivered /\ msg.body.layout = "addxp"
    /\ BigAdd(get_xp(data, msg.body.user), Big(1)) = MAX_UINT64
    /\ msg.body.amount # BigZero
    /\ exit_code = ERR_OVERFLOW

\* get_xp(u) is the sum of the amounts of the AddXP applied for u
BalanceIsSum == \A u \in Addr : get_xp(data, u) = accepted[u]

\* C7: an applied AddXP(user, amount) sets the user's balance to old + amount
\* and last_op_time to now, and changes no other balance, nor the owner, nor
\* the version; so get_xp(user) is always the sum of the applied amounts
C7_AddXpApplied ==
    [][ /\ BalanceIsSum /\ BalanceIsSum'
        /\ (Processed("addxp") /\ exit_code' = EXIT_OK)
           => /\ get_xp(data', msg'.body.user)
                   = BigAdd(get_xp(data, msg'.body.user), msg'.body.amount)
              /\ get_last_op_time(data') = now
              /\ \A u \in Addr \ {msg'.body.user} :
                     get_xp(data', u) = get_xp(data, u)
              /\ get_owner(data') = get_owner(data)
              /\ get_version(data') = get_version(data) ]_vars

\* an AddXP was applied to a user who already had XP while another user holds
\* XP too
C7_Witness ==
    /\ msg.delivered /\ msg.body.layout = "addxp"
    /\ exit_code = EXIT_OK
    /\ msg.body.amount # BigZero
    /\ BigLt(msg.body.amount, get_xp(data, msg.body.user))
    /\ \E u \in Users \ {msg.body.user} : get_xp(data, u) # BigZero

\* C8: an AddXP carrying an opId that was already used for the same user is
\* rejected (DuplicateOp) and leaves the balance unchanged
C8_DuplicateRejected ==
    [][ (Processed("addxp_id")
         /\ slice_hash(msg'.sender) = slice_hash(get_owner(data))
         /\ <<msg'.body.user, msg'.body.opId>> \in usedOps)
        => /\ exit_code' # EXIT_OK
           /\ get_xp(data', msg'.body.user) = get_xp(data, msg'.body.user)
      ]_vars

C10_UpgradeKeepsState ==
    [][ (Processed("op") /\ msg'.body.op = OP_UPGRADE /\ ~data.null)
        => IF slice_hash(msg'.sender) # slice_hash(get_owner(data))
           THEN exit_code' = ERR_NOT_OWNER /\ data' = data
           ELSE /\ exit_code' = EXIT_OK
                /\ get_version(data') = get_version(data) + 1
                /\ get_owner(data') = get_owner(data)
                /\ get_last_op_time(data') = get_last_op_time(data)
                /\ \A u \in Addr : get_xp(data', u) = get_xp(data, u) ]_vars

\* no transaction has run since deployment
JustDeployed == fresh /\ ~data.null

\* C11: right after deployment the ledger reports owner = the deploying
\* party, version = 1, last_op_time = 0 and get_xp(u) = 0 for every user
C11_FreshLedger ==
    JustDeployed
    => /\ get_owner(data) \in Deployers
       /\ get_version(data) = 1
       /\ get_last_op_time(data) = 0
       /\ \A u \in Addr : get_xp(data, u) = BigZero

\* C12: the get methods can be called in any state and leave the storage as
\* it was; get_xp(user) is the stored balance of the user, 0 without an entry
C12_GettersReadOnly ==
    [][ reply'.asked
        => /\ data' = data
           /\ (reply'.method = "get_xp")
              => ValueOf(reply') = IF data.null \/ slice_hash(reply'.args[1])
                                             \notin DOMAIN data.dict
                            THEN BigZero
                            ELSE data.dict[slice_hash(reply'.args[1])]
           /\ (reply'.method = "get_owner" /\ ~data.null)
              => ValueOf(reply') = data.owner
           /\ (reply'.method = "get_version" /\ ~data.null)
              => ValueOf(reply') = data.ver
           /\ (reply'.method = "get_last_op_time" /\ ~data.null)
              => ValueOf(reply') = data.last_op_time ]_vars

\* get_xp was asked for a user with a balance while another user has none
C12_Witness ==
    /\ reply.asked /\ reply.method = "get_xp"
    /\ ValueOf(reply) # BigZero
    /\ \E u \in Users : slice_hash(u) \notin DOMAIN data.dict

\* the level table of the specification
LevelOf(xp) == CASE xp < 100 -> 0
                 [] xp >= 100 /\ xp < 250 -> 1
                 [] xp >= 250 /\ xp < 500 -> 2
                 [] xp >= 500 -> 3

\* C13: for xp >= 0 get_level returns 0 below 100, 1 below 250, 2 below 500
\* and 3 from 500 on, and get_rank returns the same
C13_LevelTable ==
    (reply.asked /\ reply.method \in {"get_level", "get_rank"}
     /\ reply.args[1] >= 0)
    => reply.exit = EXIT_OK /\ ValueOf(reply) = LevelOf(reply.args[1])

\* get_rank was asked at the boundary 100
C13_Witness ==
    reply.asked /\ reply.method = "get_rank" /\ reply.args[1] = 100
    /\ ValueOf(reply) = 1

Min(a, b) == IF a < b THEN a ELSE b

Max(a, b) == IF a > b THEN a ELSE b

\* C14: for non-negative arguments get_reputation returns
\* min(100, max(0, xp div 10 + 2*days + 5*rating - 10*weight + 18)), a value
\* in [0, 100]; the five values of the specification come out as stated
C14_Reputation ==
    (reply.asked /\ reply.method = "get_reputation"
     /\ \A i \in 1 .. 4 : reply.args[i] >= 0)
    => LET a == reply.args
       IN  /\ reply.exit = EXIT_OK
           /\ ValueOf(reply) = Min(100, Max(0, (a[1] \div 10) + 2 * a[2] + 5 * a[3]
                                        - 10 * a[4] + 18))
           /\ ValueOf(reply) >= 0 /\ ValueOf(reply) <= 100
           /\ (a = <<0, 0, 0, 0>>) => ValueOf(reply) = 18
           /\ (a = <<100, 0, 0, 0>>) => ValueOf(reply) = 28
           /\ (a = <<100, 5, 1, 0>>) => ValueOf(reply) = 43
           /\ (a = <<500, 10, 5, 5>>) => ValueOf(reply) = 63
           /\ (a = <<1000, 20, 10, 10>>) => ValueOf(reply) = 100

\* the clamped value of the specification was computed
C14_Witness ==
    reply.asked /\ reply.method = "get_reputation"
    /\ reply.args = <<1000, 20, 10, 10>> /\ ValueOf(reply) = 100

\* C15: get_level and get_rank with xp < 0 fail with code 301, and
\* get_reputation with a negative argument fails with code 310
C15_NegativeRejected ==
    /\ (reply.asked /\ reply.method \in {"get_level", "get_rank"}
        /\ reply.args[1] < 0)
       => reply.exit = ERR_NEGATIVE_XP
    /\ (reply.asked /\ reply.method = "get_reputation"
        /\ \E i \in 1 .. 4 : reply.args[i] < 0)
       => reply.exit = ERR_NEGATIVE_ARG

\* get_reputation was called with only the behaviour weight negative
C15_Witness ==
    reply.asked /\ reply.method = "get_reputation"
    /\ reply.args = <<100, 5, 1, -1>> /\ reply.exit = ERR_NEGATIVE_ARG

\* C16: a non-empty message whose opcode is none of 0x1234, 0x5678, 0x8765
\* is rejected with 404 and leaves the storage unchanged
C16_UnknownOpRejected ==
    [][ (msg'.delivered /\ msg'.body.layout # "empty"
         /\ msg'.body.op \notin {OP_ADD_XP, OP_ADD_XP_WITH_ID, OP_UPGRADE})
        => (exit_code' = ERR_INVALID_OP /\ data' = data) ]_vars

\* C17: the AddXP body built by the client starts with 0x5678 and ends with
\* the 256-bit opId exactly when an opId was supplied (0 included), otherwise
\* starts with 0x1234 and ends after the amount; the ledger's parser reads
\* back the same user and amount
C17_AddXpRoundTrip ==
    (reply.asked /\ reply.method = "getAddXPMessageBody")
    => LET user   == reply.args.user
           amount == reply.args.amount
           opId   == reply.args.opId
           p      == ValueOf(reply)
       IN  /\ p.ok /\ p.flags = 0 /\ p.user = user /\ p.amount = amount
           /\ IF opId # NoOpId
              THEN /\ p.op = OP_ADD_XP_WITH_ID
                   /\ p.restLen = 256
                   /\ p.restValue = opId
              ELSE p.op = OP_ADD_XP /\ p.restLen = 0

\* ───────── properties of the engine ─────────
\* C18: when the wallet's address hash differs from the hash of getOwner(),
\* the run ends having sent no message to the ledger and written no User row
\* and no Transaction row
C18_AbortSendsNothing ==
    eng.pc = "aborted"
    => /\ eng.sent = << >>
       /\ \A a \in Addr : eng.dbUsers[a] = NoRow
       /\ eng.dbTxs = << >>

\* a run on a ledger owned by the wallet in which no call failed, every
\* message reached the ledger and no other client wrote
HappyRun ==
    /\ eng.pc = "done"
    /\ ~eng.faults
    /\ eng.net = << >>
    /\ eng.others = 0
    /\ get_owner(data) = Wallet

\* the Transaction rows written for a user
RowsOf(user) ==
    {i \in 1 .. Len(eng.dbTxs) : eng.dbTxs[i].user = user}

\* C19: on the happy path the first user of the batch ends with
\* get_xp(user) = 1 and exactly one Transaction row, of status success,
\* carrying the opId of the submission (the ledger of the source keeps no
\* history to look K up in)
C19_HappyPath ==
    HappyRun
    => /\ get_xp(data, TargetUsers[1]) = Big(1)
       /\ Cardinality(RowsOf(TargetUsers[1])) = 1
       /\ \A i \in RowsOf(TargetUsers[1]) :
             /\ eng.dbTxs[i].status = "success"
             /\ \E j \in 1 .. Len(eng.sent) :
                   /\ eng.sent[j].kind = "first" /\ eng.sent[j].idx = 1
                   /\ eng.sent[j].opId = eng.dbTxs[i].opId

\* the step hands a retry to the wallet
RetrySent ==
    /\ Len(eng'.sent) = Len(eng.sent) + 1
    /\ eng'.sent[Len(eng'.sent)].kind = "retry"

\* the messages of the given kind sent so far for the user at idx
SentFor(idx, kind) ==
    {i \in 1 .. Len(eng.sent) :
        eng.sent[i].idx = idx /\ eng.sent[i].kind = kind}

Batch == 1 .. Len(TargetUsers)

\* the AddXP messages handed to the wallet for the user at idx
Attempts(idx) == SentFor(idx, "first") \cup SentFor(idx, "retry")

\* the loop body of the user at idx has run to its end
Finished(idx) ==
    \/ eng.idx > idx
    \/ eng.idx = idx /\ eng.pc \in {"cleanup", "done"}

\* C21: when the engine has finished with a user for whom it submitted an
\* AddXP, the audit store holds a Transaction row of that user with status
\* success or failed
C21_EveryAttemptAudited ==
    \A i \in Batch :
        (Finished(i) /\ Attempts(i) # {})
        => \E r \in RowsOf(TargetUsers[i]) :
              eng.dbTxs[r].status \in {"success", "failed"}

\* C22: when a user's processing escalates, the first attempt and the retry
\* carry distinct opIds and, once the engine has finished with the user, the
\* audit store holds a Transaction row for each of the two opIds
C22_RowPerAttempt ==
    \A i \in Batch :
        SentFor(i, "retry") # {}
        => /\ \A j, k \in Attempts(i) :
                 j # k => eng.sent[j].opId # eng.sent[k].opId
           /\ Finished(i)
              => \A j \in Attempts(i) :
                    \E r \in RowsOf(TargetUsers[i]) :
                       eng.dbTxs[r].opId = eng.sent[j].opId

\* C23: every Transaction row is of a user whose User row exists, and an
\* AddXP has been submitted only for users whose User row exists (no row,
\* no submission)
C23_UserRowFirst ==
    /\ \A r \in 1 .. Len(eng.dbTxs) : eng.dbUsers[eng.dbTxs[r].user] # NoRow
    /\ \A i \in Batch :
          Attempts(i) # {} => eng.dbUsers[TargetUsers[i]] # NoRow

\* a Transaction row has been written for a user, and the save of another
\* user's User row failed
C23_Witness ==
    /\ \E r \in 1 .. Len(eng.dbTxs) : eng.dbTxs[r].user = TargetUsers[1]
    /\ Finished(2) /\ eng.dbUsers[TargetUsers[2]] = NoRow

\* C24: a call that keeps failing while a user is processed never ends the
\* run: inside the loop the run does not stop on an exception
C24_FailureConfined ==
    eng.idx >= 1 => eng.pc # "crashed"

\* the positions at which run has stopped
Stopped == {"done", "crashed", "aborted", "returned"}

\* C25: a user's processing ends after at most 15 checks, one retry and 10
\* further checks, and a run that entered the loop stops only after its
\* cleanup step
C25_RunReachesCleanup ==
    /\ eng.checks <= (IF eng.pc = "retry_poll" THEN RETRY_CHECKS
                      ELSE FIRST_CHECKS)
    /\ \A i \in Batch : Cardinality(SentFor(i, "retry")) <= 1
    /\ (eng.idx >= 1 /\ eng.pc \in Stopped) => eng.pc = "done"

\* C26: an AddXP is submitted for a user only when, for every earlier user
\* of the batch with a submission, the polling, the retry and the audit
\* step are over
C26_Serialized ==
    \A i \in Batch :
        (Attempts(i) # {} \/ eng.idx = i)
        => \A h \in 1 .. i - 1 : Attempts(h) # {} => h \in eng.audited

\* the second user's AddXP was submitted after the first user's processing
\* went through its retry
C26_Witness ==
    /\ SentFor(1, "retry") # {}
    /\ SentFor(2, "first") # {}

\* C29: a Transaction row with status success is of a user for whom the
\* ledger applied an AddXP that the engine submitted
C29_SuccessMeansApplied ==
    \A r \in 1 .. Len(eng.dbTxs) :
        eng.dbTxs[r].status = "success"
        => \E i \in Batch :
              /\ TargetUsers[i] = eng.dbTxs[r].user
              /\ \E j \in Attempts(i) : eng.sent[j].seq \in eng.applied

ClientGetters == WrapperGetters \cup {"check-balance.getXP"}

\* C27: every client getter returns the value decoded from the ledger's
\* response or fails with an error: a transport or decode failure never
\* becomes a default value, a decoded value is returned as it is, and
\* getUserHistory returns the empty result without error when the ledger
\* holds no history
C27_GettersNeverDefault ==
    (reply.asked /\ reply.method \in ClientGetters) =>
        LET resp == reply.args.response
        IN  /\ resp.kind \in {"transport", "malformed"} => reply.exit = Thrown
            /\ resp.kind = "ok" =>
                  reply.exit = EXIT_OK /\ ValueOf(reply) = resp.v
            /\ (resp.kind = "null" /\ reply.method = "getUserHistory") =>
                  reply.exit = EXIT_OK /\ ValueOf(reply) = NoValue
            /\ (resp.kind = "null" /\ reply.method # "getUserHistory") =>
                  reply.exit = Thrown

Resolved(fn, n) == {i \in 1 .. n : fn[i].ok}

\* the first of a non-empty set of invocations
First(S) == CHOOSE i \in S : \A j \in S : i <= j

\* what the claim says of withRetry(fn, n) with n >= 1: at most n invocations;
\* the value of the first invocation that resolved, and no invocation after
\* it; after n rejections the error of the n-th
RetryContract(fn, n, exit, v) ==
    /\ v.calls <= n
    /\ Resolved(fn, n) # {}
       => /\ exit = EXIT_OK
          /\ v.calls = First(Resolved(fn, n))
          /\ v.v = fn[v.calls].v
    /\ Resolved(fn, n) = {}
       => exit = Thrown /\ v.calls = n /\ v.v = fn[n].v

\* C35: withRetry(fn, n) with n >= 1 invokes fn at most n times, returns the
\* first success without invoking fn again and rethrows the n-th error after
\* n failures; the AddXP submission runs under it with n = 3 and hands the
\* same opId to the wallet on every try
C35_WithRetry ==
    /\ (reply.asked /\ reply.method = "withRetry" /\ reply.args.retries >= 1)
       => RetryContract(reply.args.fn, reply.args.retries, reply.exit,
                        ValueOf(reply))
    /\ (reply.asked /\ reply.method = "submitAddXP")
       => /\ RetryContract(reply.args.fn, 3, reply.exit, ValueOf(reply))
          /\ \A i \in 1 .. ValueOf(reply).calls :
                ValueOf(reply).handed[i].opId = reply.args.opId

\* the submission failed twice and went through on the third try
C35_Witness ==
    /\ reply.asked /\ reply.method = "submitAddXP"
    /\ ~reply.args.fn[1].ok /\ ~reply.args.fn[2].ok /\ reply.args.fn[3].ok
    /\ reply.exit = EXIT_OK /\ ValueOf(reply).calls = 3

\* ───────── C37 ─────────
\* C37: the state loader decodes the storage cell built by createForDeploy
\* to the owner, version, last_op_time and (empty) balance map that were
\* written, and reads back what _store_state wrote unchanged
C37_StorageRoundTrip ==
    /\ (reply.asked /\ reply.method = "createForDeploy")
       => /\ reply.exit = EXIT_OK
          /\ ValueOf(reply) = Cell(reply.args.owner, 4, 0, EmptyDict)
    /\ (reply.asked /\ reply.method = "createForDeploy32")
       => /\ reply.exit = EXIT_OK
          /\ ValueOf(reply) = Cell(reply.args.owner, 1, 0, EmptyDict)
    /\ (reply.asked /\ reply.method = "_store_state")
       => /\ reply.exit = EXIT_OK
          /\ ValueOf(reply) = Cell(reply.args.owner, reply.args.ver,
                                   reply.args.last_op_time, reply.args.dict)

\* a state with a time, the wrapper's version and a balance was stored and
\* read back
C37_Witness ==
    /\ reply.asked /\ reply.method = "_store_state"
    /\ reply.args.ver = 4 /\ reply.args.last_op_time = MaxTime
    /\ DOMAIN reply.args.dict # {}
    /\ ValueOf(reply).last_op_time = MaxTime

\* ───────── C31 ─────────
\* C31: the opId on a success row is the opId of a message the ledger
\* applied for that user, also when the increase is seen in the poll after
\* the retry
C31_SuccessRowOpId ==
    \A i \in 1 .. Len(eng.dbTxs) :
        eng.dbTxs[i].status = "success"
        => \E j \in 1 .. Len(eng.sent) :
              /\ eng.sent[j].opId = eng.dbTxs[i].opId
              /\ eng.sent[j].kind \in {"first", "retry"}
              /\ TargetUsers[eng.sent[j].idx] = eng.dbTxs[i].user
              /\ eng.sent[j].seq \in eng.applied

\* ───────── C32 ─────────
\* C32: when the ledger's last write is less than the cooldown ago at the
\* timing step, the pre-flight sleep (in ms) lasts at least the rest of the
\* cooldown; when the ledger was never written to, there is no sleep
C32_PreflightCoversCooldown ==
    [][ (eng.pc = "timing" /\ eng'.pc = "user_start")
        => /\ lastApplied = NoTime => eng'.slept = 0
           /\ (lastApplied # NoTime /\ lastApplied > 0
               /\ now - lastApplied < MIN_TIMEOUT)
              => eng'.slept >= 1000 * (MIN_TIMEOUT - (now - lastApplied)) ]_vars

\* ───────── C33 ─────────
\* the run has written a success row for the user before the current one
PreviousConfirmed ==
    /\ eng.idx >= 2
    /\ \E i \in 1 .. Len(eng.dbTxs) :
          /\ eng.dbTxs[i].status = "success"
          /\ eng.dbTxs[i].user = TargetUsers[eng.idx - 1]

\* C33: once the run has seen the AddXP of one user applied, the first
\* attempt of the next user is handed to the wallet no earlier than the
\* cooldown after that write
C33_SubmissionsSpaced ==
    [][ (eng.pc = "submit" /\ eng'.pc = "confirm" /\ PreviousConfirmed
         /\ lastApplied # NoTime)
        => now - lastApplied >= MIN_TIMEOUT ]_vars

\* ───────── C36 ─────────
\* C36: the xp of a User row never exceeds the balance the ledger holds for
\* that address
C36_MirrorBelowLedger ==
    \A u \in Addr :
        eng.dbUsers[u] # NoRow
        => /\ eng.dbUsers[u] # TooBig
           /\ BigLeq(Big(eng.dbUsers[u]), get_xp(data, u))

\* a User row was created from a snapshot of 0 and later set to a balance
\* read by a poll, while the ledger holds that balance
C36_Witness ==
    \E u \in Addr :
        /\ eng.dbUsers[u] # NoRow /\ eng.dbUsers[u] > 0
        /\ get_xp(data, u) = Big(eng.dbUsers[u])
        /\ eng.pc = "history"

====
